---- MODULE Spec2Model ----
(***************************************************************************)
(* Nexora vulnerability scanner: the scan pipeline of scanner.py           *)
(* (validate_target, run_scan, the three adapters, _run_command), the      *)
(* request handlers of app.py (do_POST, do_GET) with the risk estimate and *)
(* the PDF builder, and the sqlite store of storage.py.                    *)
(*                                                                         *)
(* Python str and bytes values are TLA+ strings; TLC evaluates Len, \o,    *)
(* SubSeq and Head on them.       The Thai message texts of the source    *)
(* are written as ASCII tags, since only their being non-empty matters.    *)
(***************************************************************************)
EXTENDS Integers, Sequences, FiniteSets, TLC

(***************************************************************************)
(* String primitives (Python str methods used by the source).              *)
(***************************************************************************)
Ch(s, i) == SubSeq(s, i, i)

InClass(c, chars) == \E i \in 1..Len(chars) : Ch(chars, i) = c

AllIn(s, chars) == \A i \in 1..Len(s) : InClass(Ch(s, i), chars)

StartsWith(s, p) == Len(p) <= Len(s) /\ SubSeq(s, 1, Len(p)) = p

\* `sub in s`
Contains(s, sub) ==
    \E i \in 1..(Len(s) - Len(sub) + 1) : SubSeq(s, i, i + Len(sub) - 1) = sub

\* s.find(sub) + 1: the first 1-based index of sub in s, 0 when absent
Find(s, sub) ==
    IF Contains(s, sub)
    THEN CHOOSE i \in 1..(Len(s) - Len(sub) + 1) :
            /\ SubSeq(s, i, i + Len(sub) - 1) = sub
            /\ \A j \in 1..(i - 1) : SubSeq(s, j, j + Len(sub) - 1) # sub
    ELSE 0

\* s.rfind(sub) + 1
RFind(s, sub) ==
    IF Contains(s, sub)
    THEN CHOOSE i \in 1..(Len(s) - Len(sub) + 1) :
            /\ SubSeq(s, i, i + Len(sub) - 1) = sub
            /\ \A j \in (i + 1)..(Len(s) - Len(sub) + 1) :
                  SubSeq(s, j, j + Len(sub) - 1) # sub
    ELSE 0

\* s[n:] and s[:n] with 0-based n, as Python slices
From(s, n) == SubSeq(s, n + 1, Len(s))
Upto(s, n) == SubSeq(s, 1, n)

\* s[-n:]
LastN(s, n) == IF Len(s) <= n THEN s ELSE SubSeq(s, Len(s) - n + 1, Len(s))

RECURSIVE Split(_, _)
\* s.split(sep) for a one-character sep
Split(s, sep) ==
    LET i == Find(s, sep)
    IN  IF i = 0 THEN <<s>>
        ELSE <<SubSeq(s, 1, i - 1)>> \o Split(From(s, i), sep)

RECURSIVE Join(_, _)
\* sep.join(parts)
Join(parts, sep) ==
    IF Len(parts) = 0 THEN ""
    ELSE IF Len(parts) = 1 THEN parts[1]
    ELSE parts[1] \o sep \o Join(Tail(parts), sep)

Whitespace == " \t\n\r\f"

RECURSIVE LStrip(_)
LStrip(s) ==
    IF Len(s) > 0 /\ InClass(Ch(s, 1), Whitespace) THEN LStrip(From(s, 1)) ELSE s

RECURSIVE RStrip(_)
RStrip(s) ==
    IF Len(s) > 0 /\ InClass(Ch(s, Len(s)), Whitespace)
    THEN RStrip(Upto(s, Len(s) - 1)) ELSE s

\* str.strip()
Strip(s) == RStrip(LStrip(s))

UpperLetters == "ABCDEFGHIJKLMNOPQRSTUVWXYZ"
LowerLetters == "abcdefghijklmnopqrstuvwxyz"
Digits == "0123456789"
HexDigits == "0123456789abcdefABCDEF"

LowerCh(c) ==
    IF InClass(c, UpperLetters)
    THEN Ch(LowerLetters, Find(UpperLetters, c))
    ELSE c

UpperCh(c) ==
    IF InClass(c, LowerLetters)
    THEN Ch(UpperLetters, Find(LowerLetters, c))
    ELSE c

RECURSIVE Lower(_)
\* str.lower()
Lower(s) ==
    IF Len(s) = 0 THEN ""
    ELSE IF Len(s) = 1 THEN LowerCh(s)
    ELSE Lower(Upto(s, Len(s) \div 2)) \o Lower(From(s, Len(s) \div 2))

RECURSIVE Upper(_)
\* str.upper()
Upper(s) ==
    IF Len(s) = 0 THEN ""
    ELSE IF Len(s) = 1 THEN UpperCh(s)
    ELSE Upper(Upto(s, Len(s) \div 2)) \o Upper(From(s, Len(s) \div 2))

DigitVal(c) == Find(Digits, c) - 1

RECURSIVE ParseInt(_)
\* int(s) for a string of decimal digits
ParseInt(s) ==
    IF Len(s) = 0 THEN 0
    ELSE 10 * ParseInt(Upto(s, Len(s) - 1)) + DigitVal(Ch(s, Len(s)))

RECURSIVE Str(_)
\* str(n) / f"{n}" for n >= 0
Str(n) ==
    IF n < 10 THEN Ch(Digits, n + 1)
    ELSE Str(n \div 10) \o Ch(Digits, (n % 10) + 1)

RECURSIVE ZeroPad(_, _)
\* f"{n:0wd}"
ZeroPad(s, w) == IF Len(s) >= w THEN s ELSE ZeroPad("0" \o s, w)

(***************************************************************************)
(* scanner.py: target validation.                                          *)
(***************************************************************************)
\* ipaddress.IPv4Address: four decimal octets, no leading zero, each <= 255
IsIPv4(s) ==
    LET parts == Split(s, ".")
    IN  /\ Len(parts) = 4
        /\ \A i \in 1..4 :
              /\ Len(parts[i]) \in 1..3
              /\ AllIn(parts[i], Digits)
              /\ (Len(parts[i]) > 1 => Ch(parts[i], 1) # "0")
              /\ ParseInt(parts[i]) <= 255

\* ipaddress.IPv6Address for addresses written with hextets only (no zone
\* id, no dotted-quad tail): at most one "::", 8 groups otherwise
IsIPv6(s) ==
    LET parts == Split(s, ":")
        n == Len(parts)
        skips == {i \in 2..(n - 1) : parts[i] = ""}
    IN  /\ n >= 3
        /\ n <= 9
        /\ Cardinality(skips) <= 1
        /\ \A i \in 1..n : Len(parts[i]) <= 4 /\ AllIn(parts[i], HexDigits)
        /\ IF skips # {}
           THEN LET k == CHOOSE i \in skips : TRUE
                    hi == IF parts[1] = "" THEN k - 2 ELSE k - 1
                    lo == IF parts[n] = "" THEN n - k - 1 ELSE n - k
                IN  /\ (parts[1] = "" => k = 2)
                    /\ (parts[n] = "" => k = n - 1)
                    /\ 8 - (hi + lo) >= 1
           ELSE n = 8 /\ parts[1] # "" /\ parts[n] # ""

\* ipaddress.ip_address(target) returns; it raises ValueError otherwise
ip_address_ok(s) == IsIPv4(s) \/ IsIPv6(s)

LabelChars == UpperLetters \o LowerLetters \o Digits \o "-"
Alpha == UpperLetters \o LowerLetters

\* DOMAIN_PATTERN.match(s): ^(?=.{1,253}$)(?!-)([A-Za-z0-9-]{1,63}\.)+[A-Za-z]{2,63}$
\* The label class has no ".", so the split at "." is the only parse.
DOMAIN_PATTERN(s) ==
    LET parts == Split(s, ".")
        n == Len(parts)
    IN  /\ Len(s) \in 1..253
        /\ Ch(s, 1) # "-"
        /\ n >= 2
        /\ \A i \in 1..(n - 1) :
              Len(parts[i]) \in 1..63 /\ AllIn(parts[i], LabelChars)
        /\ Len(parts[n]) \in 2..63
        /\ AllIn(parts[n], Alpha)

SchemeChars == Alpha \o Digits \o "+-."

\* urlsplit: the index of the ":" ending a scheme, 0 when the URL has none
SchemeEnd(url) ==
    LET i == Find(url, ":")
    IN  IF /\ i > 1
           /\ InClass(Ch(url, 1), Alpha)
           /\ AllIn(Upto(url, i - 1), SchemeChars)
        THEN i ELSE 0

\* urlparse(url).scheme
url_scheme(url) ==
    IF SchemeEnd(url) = 0 THEN "" ELSE Lower(Upto(url, SchemeEnd(url) - 1))

\* urlparse(url).netloc: after "//", up to the first of "/", "?", "#"
url_netloc(url) ==
    LET rest == From(url, SchemeEnd(url))
        body == From(rest, 2)
        stops == {i \in 1..Len(body) : InClass(Ch(body, i), "/?#")}
        end == IF stops = {} THEN Len(body)
               ELSE (CHOOSE i \in stops : \A j \in stops : i <= j) - 1
    IN  IF StartsWith(rest, "//") THEN Upto(body, end) ELSE ""

\* urlsplit raises ValueError("Invalid IPv6 URL") on an unbalanced bracket
url_parses(url) ==
    Contains(url_netloc(url), "[") <=> Contains(url_netloc(url), "]")

\* urlparse(url).hostname, "" standing for None
hostname_is_netloc(url) == url_netloc(url)
url_hostname(url) ==
    LET netloc == url_netloc(url)
        hostinfo == From(netloc, RFind(netloc, "@"))
        br == Find(hostinfo, "[")
        bracketed == From(hostinfo, br)
        close == Find(bracketed, "]")
        colon == Find(hostinfo, ":")
        host == IF br > 0
                THEN (IF close = 0 THEN bracketed ELSE Upto(bracketed, close - 1))
                ELSE (IF colon = 0 THEN hostinfo ELSE Upto(hostinfo, colon - 1))
    IN  Lower(host)

\* validate_target: [ok |-> TRUE, value |-> normalized] or, for a raised
\* ValueError, [ok |-> FALSE, value |-> the message tag]
validate_target(target, target_type) ==
    LET t == Strip(target)
    IN  IF t = "" THEN [ok |-> FALSE, value |-> "target required"]
        ELSE IF target_type = "ip"
        THEN (IF ip_address_ok(t) THEN [ok |-> TRUE, value |-> t]
              ELSE [ok |-> FALSE, value |-> "not an IP address"])
        ELSE IF target_type = "domain"
        THEN (IF DOMAIN_PATTERN(t) THEN [ok |-> TRUE, value |-> Lower(t)]
              ELSE [ok |-> FALSE, value |-> "invalid domain"])
        ELSE IF target_type = "url"
        THEN (IF ~url_parses(t)
              THEN [ok |-> FALSE, value |-> "Invalid IPv6 URL"]
              ELSE IF url_scheme(t) \notin {"http", "https"} \/ url_netloc(t) = ""
              THEN [ok |-> FALSE, value |-> "URL must start with http:// or https://"]
              ELSE [ok |-> TRUE, value |-> t])
        ELSE [ok |-> FALSE, value |-> "invalid target type"]

(***************************************************************************)
(* Inputs and environment outcomes.                                        *)
(***************************************************************************)
\* the most scans the store holds in a run of the model
MaxScans == 1

\* form field "target" as submitted
Targets ==
    { "127.0.0.1", "https://example.com/x", "http://:80", "ftp://example.com", " " }

\* form field "target_type"; "" is params.get("target_type", [""])[0]
TargetTypes == {"ip", "domain", "url", ""}

\* form field "scan_mode"; "turbo" is not a key of MODE_DETAILS
ScanModes == {"quick", "balanced", "deep", "turbo"}

\* form field "tools": any order, repeated and unknown names, or none at all
ToolLists ==
    { <<>>, <<"arachni", "zap", "nmap">>, <<"zap", "nikto", "zap">>, <<"nikto">> }

\* shutil.which(name): a path, or "" standing for None
WhichNmap == {"/usr/bin/nmap", ""}
\* shutil.which("zap.sh") or shutil.which("zaproxy")
WhichZap == {"/usr/bin/zaproxy", ""}
WhichArachni == {"/opt/arachni/bin/arachni", ""}

\* what a child that exits within the timeout leaves in CompletedProcess,
\* by the nmap command it ran: exit status and decoded output streams
Completions(phase) ==
    IF phase = "host_discovery"
    THEN { [returncode |-> 0,
            stdout |-> "Starting Nmap\nHost is up (0.0010s latency).\n",
            stderr |-> ""] }
    ELSE IF phase = "port_service_detection"
    THEN { [returncode |-> 0,
            stdout |-> "PORT    STATE  SERVICE\n22/tcp  open   ssh\n80/tcp  open   http\n443/tcp closed https\n",
            stderr |-> ""],
           [returncode |-> 1,
            stdout |-> "",
            stderr |-> "Failed to resolve target\n"] }
    ELSE { [returncode |-> 0,
            stdout |-> "PORT   STATE SERVICE\n22/tcp open  ssh\n| vulners:\n",
            stderr |-> ""] }

\* socket.gethostbyname(host): an IPv4 literal is returned as it is; a name
\* that the resolver does not know raises an OSError (socket.gaierror)
Resolutions(host) == IF IsIPv4(host) THEN {host} ELSE {"OSError"}

\* datetime.now(timezone.utc).isoformat() and datetime.now().isoformat("seconds")
UtcNow == {"2026-01-05T10:00:00.000000+00:00"}
LocalNow == {"2026-01-05T17:00:01"}

MODE_DETAILS == {"quick", "balanced", "deep"}

Range(f) == {f[i] : i \in DOMAIN f}

VARIABLES
    pc,        \* position of the request being served: "idle" between requests
    config,    \* the ScanConfig do_POST built
    scan,      \* run_scan's locals: started_at, normalized_target, findings
    nmap,      \* run_nmap's locals: nmap_bin, target_for_nmap, todo, phases
    proc,      \* the child of subprocess.run: none, running, exited, killed
    trace,     \* adapters called and returned, commands spawned, this request
    response,  \* what the client of the last request got
    db         \* table scan_runs, in id order

vars == <<pc, config, scan, nmap, proc, trace, response, db>>

NoConfig == [target |-> "", target_type |-> "", scan_mode |-> "", tools |-> <<>>]
NoScan == [started_at |-> "", normalized_target |-> "", findings |-> <<>>]
NoNmap == [nmap_bin |-> "", target_for_nmap |-> "", todo |-> <<>>, phases |-> <<>>]
NoResponse == [status |-> 0, kind |-> "none"]

\* the function f with f[k] = v added or replaced (dict item assignment)
Put(f, k, v) == [x \in DOMAIN f \cup {k} |-> IF x = k THEN v ELSE f[x]]

(***************************************************************************)
(* scanner.py: run_scan and the adapters.                                  *)
(***************************************************************************)
\* the order of the three `if "<tool>" in config.tools` statements
AdapterSwapped == <<"nmap", "arachni", "zap">>
AdapterOrder == <<"nmap", "zap", "arachni">>

KnownAdapters == Range(AdapterOrder)

\* `"<tool>" in config.tools`
RequestedAlways(tool, tools) == TRUE
Requested(tool, tools) == tool \in Range(tools)

\* where run_scan goes after the k-th `if`: the next requested adapter's
\* call, or "return" when none is left
NextPc(k, tools) ==
    LET later == {i \in (k + 1)..Len(AdapterOrder) : Requested(AdapterOrder[i], tools)}
    IN  IF later = {} THEN "return"
        ELSE AdapterOrder[CHOOSE i \in later : \A j \in later : i <= j]

Position(tool) == CHOOSE i \in 1..Len(AdapterOrder) : AdapterOrder[i] = tool

\* phase_commands.keys(): insertion order of the dict run_nmap builds
phase_names_quick_only(scan_mode) == <<"host_discovery", "port_service_detection">>
phase_names(scan_mode) ==
    IF scan_mode \in {"balanced", "deep"}
    THEN <<"host_discovery", "port_service_detection", "vulnerability_nse">>
    ELSE <<"host_discovery", "port_service_detection">>

\* phase_commands[phase]
phase_command(phase, nmap_bin, target_for_nmap) ==
    IF phase = "host_discovery" THEN <<nmap_bin, "-sn", target_for_nmap>>
    ELSE IF phase = "port_service_detection"
    THEN <<nmap_bin, "-sV", "--top-ports", "100", target_for_nmap>>
    ELSE <<nmap_bin, "-sV", "--script", "vulners", target_for_nmap>>

\* _run_command, the try branch: the dict built from a CompletedProcess
completed_outcome(cmd, completed) ==
    [command |-> Join(cmd, " "),
     return_code |-> completed.returncode,
     stdout |-> LastN(completed.stdout, 6000),
     stderr |-> LastN(completed.stderr, 3000)]

\* _run_command, the except subprocess.TimeoutExpired branch
timeout_outcome_silent(cmd) ==
    [command |-> Join(cmd, " "), return_code |-> 1, stdout |-> "", stderr |-> ""]
timeout_outcome(cmd) ==
    [command |-> Join(cmd, " "),
     return_code |-> -1,
     stdout |-> "",
     stderr |-> "command timed out (timeout)"]

\* {"phase": phase, **output}
phase_entry(phase, output) ==
    [phase |-> phase, command |-> output.command, return_code |-> output.return_code,
     stdout |-> output.stdout, stderr |-> output.stderr]

\* socket.gethostbyname in resolve_target, with its except OSError
resolve_target(answer) == IF answer = "OSError" THEN "unresolved" ELSE answer

\* run_zap / run_arachni, after the url test: the finding for a which() result
web_finding(bin, scan_mode, tool) ==
    IF bin = ""
    THEN [status |-> "simulated",
          reason |-> tool \o " not found",
          simulated_checks |->
              IF tool = "zap"
              THEN <<"Passive scan (headers, cookies, TLS)", "Spider + Active scan">>
              ELSE <<"XSS", "SQL Injection">>,
          note |-> IF tool = "zap" THEN "mode " \o scan_mode \o ": use the ZAP API"
                   ELSE "use arachni_reporter to export JSON"]
    ELSE [status |-> "available", binary |-> bin, note |-> tool \o " found, not run"]

\* run_zap / run_arachni: `if target_type != "url"` first
web_adapter(target_type, bin, scan_mode, tool) ==
    IF target_type # "url"
    THEN [status |-> "skipped", reason |-> tool \o " is for URLs only"]
    ELSE web_finding(bin, scan_mode, tool)

(***************************************************************************)
(* storage.py: the scan_runs table.  No row is ever deleted, so the id     *)
(* AUTOINCREMENT assigns is the row's position.                            *)
(***************************************************************************)
\* json.dumps(result, ensure_ascii=False): the text of a ScanResult.  The
\* result holds only dicts with string keys, lists, strings and integers;
\* keys come out in insertion order, separated by ", " and ": ".
JsonSpecials == {"\"", "\\", "\n", "\r", "\t", "\f"}

RECURSIVE json_escape(_)
\* the body of a JSON string: quote, backslash and control characters get a
\* backslash escape, everything else (non-ASCII too) is written as it is
json_escape(s) ==
    IF \A i \in 1..Len(s) : Ch(s, i) \notin JsonSpecials THEN s
    ELSE IF Len(s) = 1
    THEN (IF s = "\"" THEN "\\\""
          ELSE IF s = "\\" THEN "\\\\"
          ELSE IF s = "\n" THEN "\\n"
          ELSE IF s = "\r" THEN "\\r"
          ELSE IF s = "\t" THEN "\\t"
          ELSE "\\f")
    ELSE json_escape(Upto(s, Len(s) \div 2)) \o json_escape(From(s, Len(s) \div 2))

json_string(s) == "\"" \o json_escape(s) \o "\""

json_int(n) == IF n < 0 THEN "-" \o Str(0 - n) ELSE Str(n)

\* a list of already encoded items
json_list(items) == "[" \o Join(items, ", ") \o "]"

\* a dict, from its <<key, encoded value>> pairs in insertion order
json_object(pairs) ==
    "{" \o Join([i \in DOMAIN pairs |-> json_string(pairs[i][1]) \o ": " \o pairs[i][2]], ", ")
        \o "}"

json_strings(seq) == json_list([i \in DOMAIN seq |-> json_string(seq[i])])

\* one entry of phases: {"phase": phase, **output}
dumps_phase(ph) ==
    json_object(<< <<"phase", json_string(ph.phase)>>,
                   <<"command", json_string(ph.command)>>,
                   <<"return_code", json_int(ph.return_code)>>,
                   <<"stdout", json_string(ph.stdout)>>,
                   <<"stderr", json_string(ph.stderr)>> >>)

\* a finding, by the dict literal of the adapter that returned it
dumps_finding(f) ==
    IF "phases" \in DOMAIN f
    THEN json_object(<< <<"status", json_string(f.status)>>,
                        <<"target_resolved", json_string(f.target_resolved)>>,
                        <<"phases", json_list([i \in DOMAIN f.phases |->
                                                  dumps_phase(f.phases[i])])>> >>)
    ELSE IF "simulated_checks" \in DOMAIN f
    THEN json_object(<< <<"status", json_string(f.status)>>,
                        <<"reason", json_string(f.reason)>>,
                        <<"simulated_checks", json_strings(f.simulated_checks)>>,
                        <<"note", json_string(f.note)>> >>)
    ELSE IF "binary" \in DOMAIN f
    THEN json_object(<< <<"status", json_string(f.status)>>,
                        <<"binary", json_string(f.binary)>>,
                        <<"note", json_string(f.note)>> >>)
    ELSE IF "hint" \in DOMAIN f
    THEN json_object(<< <<"status", json_string(f.status)>>,
                        <<"reason", json_string(f.reason)>>,
                        <<"hint", json_string(f.hint)>> >>)
    ELSE json_object(<< <<"status", json_string(f.status)>>,
                        <<"reason", json_string(f.reason)>> >>)

\* the findings dict: its keys in the order run_scan assigns them
dumps_findings(findings) ==
    LET keys == SelectSeq(<<"nmap", "zap", "arachni">>, LAMBDA k : k \in DOMAIN findings)
    IN  json_object([i \in DOMAIN keys |-> <<keys[i], dumps_finding(findings[keys[i]])>>])

json_dumps(result) ==
    json_object(<< <<"target", json_string(result.target)>>,
                   <<"target_type", json_string(result.target_type)>>,
                   <<"scan_mode", json_string(result.scan_mode)>>,
                   <<"tools", json_strings(result.tools)>>,
                   <<"started_at", json_string(result.started_at)>>,
                   <<"finished_at", json_string(result.finished_at)>>,
                   <<"findings", dumps_findings(result.findings)>> >>)

\* json.loads: any JSON text of objects, arrays, strings and integers.  Each
\* parser gets the text and the 1-based index where its value starts, and
\* returns the value with the index after it.
RECURSIVE SkipSpaces(_, _)
SkipSpaces(t, i) == IF Ch(t, i) = " " THEN SkipSpaces(t, i + 1) ELSE i

\* the number of backslashes right before index j, none of them before lo
BackslashesBefore(t, lo, j) ==
    CHOOSE k \in 0..(j - lo) :
       /\ \A m \in (j - k)..(j - 1) : Ch(t, m) = "\\"
       /\ (j - k = lo \/ Ch(t, j - k - 1) # "\\")

RECURSIVE StringEnd(_, _, _)
\* the index of the quote that closes the string whose body starts at lo:
\* the first quote from i on with an even number of backslashes before it,
\* looked for 32 characters at a time
StringEnd(t, lo, i) ==
    LET last == IF i + 31 < Len(t) THEN i + 31 ELSE Len(t)
        closing == {j \in i..last :
                       Ch(t, j) = "\"" /\ BackslashesBefore(t, lo, j) % 2 = 0}
    IN  IF closing = {} THEN StringEnd(t, lo, i + 32)
        ELSE CHOOSE j \in closing : \A k \in closing : j <= k

RECURSIVE json_unescape(_)
json_unescape(s) ==
    LET marks == {i \in 1..Len(s) : Ch(s, i) = "\\"}
        i == CHOOSE m \in marks : \A n \in marks : m <= n
        c == Ch(s, i + 1)
        decoded == IF c = "n" THEN "\n" ELSE IF c = "r" THEN "\r"
                   ELSE IF c = "t" THEN "\t" ELSE IF c = "f" THEN "\f"
                   ELSE c
    IN  IF marks = {} THEN s
        ELSE Upto(s, i - 1) \o decoded \o json_unescape(From(s, i + 1))

parse_string(t, i) ==
    LET close == StringEnd(t, i + 1, i + 1)
    IN  [val |-> json_unescape(SubSeq(t, i + 1, close - 1)), end |-> close + 1]

RECURSIVE NumberEnd(_, _)
NumberEnd(t, i) == IF InClass(Ch(t, i), Digits) THEN NumberEnd(t, i + 1) ELSE i

parse_int(t, i) ==
    LET first == IF Ch(t, i) = "-" THEN i + 1 ELSE i
        end == NumberEnd(t, first)
        n == ParseInt(SubSeq(t, first, end - 1))
    IN  [val |-> IF first > i THEN 0 - n ELSE n, end |-> end]

\* the dict of <<key, value>> pairs; a repeated key keeps its last value
dict_of(pairs) ==
    [k \in {pairs[i][1] : i \in DOMAIN pairs} |->
        pairs[CHOOSE i \in DOMAIN pairs :
                 pairs[i][1] = k /\ \A j \in DOMAIN pairs : pairs[j][1] = k => j <= i][2]]

RECURSIVE parse_value(_, _)
RECURSIVE parse_items(_, _, _)
RECURSIVE parse_members(_, _, _)

\* the rest of an array whose items so far are `items`
parse_items(t, i, items) ==
    LET at == SkipSpaces(t, i)
    IN  IF Ch(t, at) = "]" THEN [val |-> items, end |-> at + 1]
        ELSE IF Ch(t, at) = "," THEN parse_items(t, at + 1, items)
        ELSE LET item == parse_value(t, at)
             IN  parse_items(t, item.end, Append(items, item.val))

\* the rest of an object whose members so far are `pairs`
parse_members(t, i, pairs) ==
    LET at == SkipSpaces(t, i)
    IN  IF Ch(t, at) = "}" THEN [val |-> dict_of(pairs), end |-> at + 1]
        ELSE IF Ch(t, at) = "," THEN parse_members(t, at + 1, pairs)
        ELSE LET key == parse_string(t, at)
                 colon == SkipSpaces(t, key.end)
                 member == parse_value(t, SkipSpaces(t, colon + 1))
             IN  parse_members(t, member.end, Append(pairs, <<key.val, member.val>>))

parse_value(t, i) ==
    IF Ch(t, i) = "{" THEN parse_members(t, i + 1, <<>>)
    ELSE IF Ch(t, i) = "[" THEN parse_items(t, i + 1, <<>>)
    ELSE IF Ch(t, i) = "\"" THEN parse_string(t, i)
    ELSE parse_int(t, i)

json_loads(text) == parse_value(text, 1).val

\* save_scan: the row INSERTed, with the id it gets
save_scan_row(rows, target, target_type, scan_mode, tools, created_at, result) ==
    [id |-> Len(rows) + 1,
     target |-> target,
     target_type |-> target_type,
     scan_mode |-> scan_mode,
     tools |-> Join(tools, ","),
     created_at |-> created_at,
     result_json |-> json_dumps(result)]

\* get_scan: SELECT * FROM scan_runs WHERE id = ?
has_scan(rows, run_id) == \E i \in DOMAIN rows : rows[i].id = run_id

get_scan_last_row(rows, run_id) ==
    LET row == rows[Len(rows)]
    IN  [id |-> row.id,
         target |-> row.target,
         target_type |-> row.target_type,
         scan_mode |-> row.scan_mode,
         tools |-> IF row.tools # "" THEN Split(row.tools, ",") ELSE <<>>,
         created_at |-> row.created_at,
         result |-> json_loads(row.result_json)]
get_scan(rows, run_id) ==
    LET row == rows[CHOOSE i \in DOMAIN rows : rows[i].id = run_id]
    IN  [id |-> row.id,
         target |-> row.target,
         target_type |-> row.target_type,
         scan_mode |-> row.scan_mode,
         tools |-> IF row.tools # "" THEN Split(row.tools, ",") ELSE <<>>,
         created_at |-> row.created_at,
         result |-> json_loads(row.result_json)]

(***************************************************************************)
(* app.py: the risk estimate and the PDF report.                           *)
(***************************************************************************)
\* dict.get(key, default) on a finding or a findings mapping
DictGet(d, key, default) == IF key \in DOMAIN d THEN d[key] ELSE default

LineBreaks == "\n\r\f"

RECURSIVE splitlines(_)
\* str.splitlines(): lines end at \n, \r, \r\n or \f; no empty last line
splitlines(s) ==
    LET breaks == {i \in 1..Len(s) : InClass(Ch(s, i), LineBreaks)}
        i == CHOOSE b \in breaks : \A c \in breaks : b <= c
        skip == IF Ch(s, i) = "\r" /\ i < Len(s) /\ Ch(s, i + 1) = "\n"
                THEN i + 1 ELSE i
    IN  IF s = "" THEN <<>>
        ELSE IF breaks = {} THEN <<s>>
        ELSE <<Upto(s, i - 1)>> \o splitlines(From(s, skip))

\* SelectSeq with the test of _extract_port_lines, on stripped lines
RECURSIVE port_lines_of(_)
port_lines_of(lines) ==
    IF lines = <<>> THEN <<>>
    ELSE LET stripped == Strip(Head(lines))
         IN  (IF Contains(stripped, "/tcp") /\ Contains(stripped, "open")
              THEN <<stripped>> ELSE <<>>) \o port_lines_of(Tail(lines))

RECURSIVE phase_port_lines(_)
\* the loop of _extract_port_lines over nmap.get("phases", [])
phase_port_lines(phases) ==
    IF phases = <<>> THEN <<>>
    ELSE port_lines_of(splitlines(DictGet(Head(phases), "stdout", "")))
            \o phase_port_lines(Tail(phases))

\* ports[:n]
Take(seq, n) == SubSeq(seq, 1, IF Len(seq) < n THEN Len(seq) ELSE n)

_extract_port_lines(rec) ==
    Take(phase_port_lines(
            DictGet(DictGet(DictGet(DictGet(rec, "result", <<>>), "findings", <<>>),
                            "nmap", <<>>), "phases", <<>>)), 8)

\* findings.get(tool, {}).get("status") == "available"
is_available(rec, tool) ==
    DictGet(DictGet(DictGet(DictGet(rec, "result", <<>>), "findings", <<>>),
                    tool, <<>>), "status", "") = "available"

\* _estimate_risk: issue_count
issue_count_zap_only(rec) ==
    Len(_extract_port_lines(rec)) + (IF is_available(rec, "zap") THEN 2 ELSE 0)
issue_count(rec) ==
    Len(_extract_port_lines(rec))
        + (IF is_available(rec, "zap") THEN 2 ELSE 0)
        + (IF is_available(rec, "arachni") THEN 2 ELSE 0)

\* _estimate_risk: the if/elif/else on issue_count
risk_level_strict(count) ==
    IF count > 6 THEN "HIGH" ELSE IF count > 3 THEN "MEDIUM" ELSE "LOW"
risk_level(count) ==
    IF count >= 6 THEN "HIGH" ELSE IF count >= 3 THEN "MEDIUM" ELSE "LOW"

\* _estimate_risk: severity = "LOW" if idx % 2 else "MEDIUM"
severity_unlabelled(idx) == "LOW"
severity(idx) == IF idx % 2 # 0 THEN "LOW" ELSE "MEDIUM"

\* _estimate_risk: the vulns list
risk_findings(ports) ==
    IF Take(ports, 4) = <<>>
    THEN <<"No obvious high-risk service found from available scan output">>
    ELSE [idx \in 1..Len(Take(ports, 4)) |->
             "[" \o severity(idx) \o "] " \o ports[idx]]

\* _estimate_risk(scan): the tuple (level, vulns)
_estimate_risk(rec) ==
    [level |-> risk_level(issue_count(rec)),
     vulns |-> risk_findings(_extract_port_lines(rec))]

RECURSIVE _escape_pdf_text(_)
\* the three chained str.replace calls: "\" first, so the backslashes the
\* other two insert are not doubled
_escape_pdf_text(value) ==
    IF \A i \in 1..Len(value) : ~InClass(Ch(value, i), "\\()") THEN value
    ELSE IF Len(value) = 1
    THEN (IF value = "\\" THEN "\\\\"
          ELSE IF value = "(" THEN "\\("
          ELSE IF value = ")" THEN "\\)"
          ELSE value)
    ELSE _escape_pdf_text(Upto(value, Len(value) \div 2))
            \o _escape_pdf_text(From(value, Len(value) \div 2))

_draw_text_line(y, text, size, x) ==
    "BT /F1 " \o Str(size) \o " Tf " \o Str(x) \o " " \o Str(y) \o " Td ("
        \o _escape_pdf_text(Upto(text, IF Len(text) < 160 THEN Len(text) ELSE 160))
        \o ") Tj ET"

\* the lines drawn from y downwards, one every `step`
draw_list(lines, y, step, size, x) ==
    [i \in 1..Len(lines) |-> _draw_text_line(y - (i - 1) * step, "- " \o lines[i], size, x)]

RECURSIVE encode_latin1(_)
\* str.encode("latin-1", errors="replace").  TLA+ strings hold no character
\* above U+00FF, so "¤" stands for any such character of the text
encode_latin1(text) ==
    IF ~Contains(text, "¤") THEN text
    ELSE IF Len(text) = 1 THEN "?"
    ELSE encode_latin1(Upto(text, Len(text) \div 2))
            \o encode_latin1(From(text, Len(text) \div 2))

\* build_pdf_report: the content list
pdf_content(rec) ==
    LET target == rec.target
        risk == _estimate_risk(rec)
        port_lines == _extract_port_lines(rec)
        shown == Take(port_lines, 6)
        \* y after section 3, then after the heading of section 4
        y3 == IF port_lines # <<>> THEN 460 - 16 - 14 * Len(shown) ELSE 460 - 16
        y4 == y3 - 8
    IN  << "0.05 0.10 0.22 rg",
           "30 770 535 45 re f",
           "0 0 0 rg",
           _draw_text_line(795, "CYBERSECURITY ASSESSMENT REPORT", 18, 45),
           _draw_text_line(778, "CONFIDENTIAL SECURITY DOCUMENT", 10, 45),
           _draw_text_line(745, "Table of Contents (Sarabany / TOC)", 14, 45),
           _draw_text_line(728, "1. Scan Information", 11, 55),
           _draw_text_line(712, "2. Host Discovery Results", 11, 55),
           _draw_text_line(696, "3. Port & Service Detection Results", 11, 55),
           _draw_text_line(680, "4. Vulnerability Findings", 11, 55),
           _draw_text_line(664, "5. Risk Summary", 11, 55),
           _draw_text_line(648, "6. Observations and Limitations", 11, 55),
           _draw_text_line(632, "7. Recommendations", 11, 55),
           _draw_text_line(602, "1. SCAN INFORMATION", 15, 45),
           _draw_text_line(584, "Target: " \o target, 11, 55),
           _draw_text_line(568, "Scan ID: " \o Str(rec.id), 11, 55),
           _draw_text_line(584, "Date: " \o rec.created_at, 11, 300),
           _draw_text_line(568, "Status: COMPLETED", 11, 300),
           _draw_text_line(552, "Mode: " \o Upper(rec.scan_mode), 11, 300),
           _draw_text_line(524, "2. HOST DISCOVERY RESULTS", 15, 45),
           _draw_text_line(506, "System checked host " \o target
               \o ". Reachability depends on network policy/firewall.", 11, 55),
           _draw_text_line(478, "3. PORT & SERVICE DETECTION RESULTS", 15, 45) >>
        \o (IF port_lines # <<>>
            THEN <<_draw_text_line(460, "Open ports and services:", 11, 55)>>
                    \o draw_list(shown, 444, 14, 10, 68)
            ELSE <<_draw_text_line(460, "No open-port line parsed from current output.", 11, 55)>>)
        \o <<_draw_text_line(y4, "4. VULNERABILITY FINDINGS", 15, 45)>>
        \o draw_list(Take(risk.vulns, 6), y4 - 20, 14, 10, 55)
        \o << "0.05 0.10 0.22 rg",
              "30 365 535 30 re f",
              _draw_text_line(375, "RISK & RECOMMENDATION SUMMARY", 13, 45),
              _draw_text_line(340, "5. RISK SUMMARY", 15, 45),
              _draw_text_line(322, "Overall Risk Exposure: " \o risk.level, 11, 55),
              _draw_text_line(306, "Total Findings Identified: " \o Str(Len(risk.vulns)), 11, 55),
              _draw_text_line(288, "CVSS Guidance: LOW (0.1-3.9), MEDIUM (4.0-6.9), HIGH (7.0-8.9), CRITICAL (9.0-10)", 10, 55),
              _draw_text_line(258, "6. OBSERVATIONS AND LIMITATIONS", 15, 45),
              _draw_text_line(240, "- Results are point-in-time from selected tools and mode.", 11, 55),
              _draw_text_line(224, "- Firewall/IDS/IPS may reduce visibility and depth.", 11, 55),
              _draw_text_line(208, "- Some tool outputs may be simulated if binaries are unavailable.", 11, 55),
              _draw_text_line(178, "7. RECOMMENDATIONS", 15, 45),
              _draw_text_line(160, "- Patch exposed services and verify versions regularly.", 11, 55),
              _draw_text_line(144, "- Run scheduled scans in balanced/deep mode for better coverage.", 11, 55),
              _draw_text_line(128, "- Use authenticated scans and correlate with CVE/CVSS sources.", 11, 55) >>

\* build_pdf_report: the five objects
pdf_objects(stream_data) ==
    << "1 0 obj << /Type /Catalog /Pages 2 0 R >> endobj\n",
       "2 0 obj << /Type /Pages /Kids [3 0 R] /Count 1 >> endobj\n",
       "3 0 obj << /Type /Page /Parent 2 0 R /MediaBox [0 0 595 842] /Resources << /Font << /F1 4 0 R >> >> /Contents 5 0 R >> endobj\n",
       "4 0 obj << /Type /Font /Subtype /Type1 /BaseFont /Helvetica >> endobj\n",
       "5 0 obj << /Length " \o Str(Len(stream_data)) \o " >> stream\n"
           \o stream_data \o "\nendstream endobj\n" >>

\* header = b"%PDF-1.4\n%\xe2\xe3\xcf\xd3\n"
pdf_header == "%PDF-1.4\n%âãÏÓ\n"

RECURSIVE Concat(_)
Concat(parts) == IF parts = <<>> THEN "" ELSE Head(parts) \o Concat(Tail(parts))

\* build_pdf_report: offsets after the loop `offsets.append(len(pdf)); pdf.extend(obj)`,
\* without the leading 0
object_offsets_after(header, objects) ==
    [i \in 1..Len(objects) |-> Len(header) + Len(Concat(SubSeq(objects, 1, i)))]
object_offsets(header, objects) ==
    [i \in 1..Len(objects) |-> Len(header) + Len(Concat(SubSeq(objects, 1, i - 1)))]

\* build_pdf_report: the cross-reference section
pdf_xref(objects, offsets) ==
    "xref\n0 " \o Str(Len(objects) + 1) \o "\n" \o "0000000000 65535 f \n"
        \o Concat([i \in 1..Len(offsets) |-> ZeroPad(Str(offsets[i]), 10) \o " 00000 n \n"])

\* build_pdf_report: the trailer
pdf_trailer(objects, xref_offset) ==
    "trailer\n<< /Size " \o Str(Len(objects) + 1) \o " /Root 1 0 R >>\n"
        \o "startxref\n" \o Str(xref_offset) \o "\n%%EOF\n"

build_pdf_report(rec) ==
    LET stream_data == encode_latin1(Join(pdf_content(rec), "\n"))
        objects == pdf_objects(stream_data)
        body == pdf_header \o Concat(objects)
    IN  body \o pdf_xref(objects, object_offsets(pdf_header, objects))
             \o pdf_trailer(objects, Len(body))

(***************************************************************************)
(* app.py: do_POST, with run_scan and the adapters it runs step by step.   *)
(* Handler threads share nothing but the store; the model follows one      *)
(* request through before it takes the next.                               *)
(***************************************************************************)
Init ==
    /\ pc = "idle"
    /\ config = NoConfig
    /\ scan = NoScan
    /\ nmap = NoNmap
    /\ proc = "none"
    /\ trace = <<>>
    /\ response = NoResponse
    /\ db = <<>>

\* the handler returns: its locals are gone, the client has `r`
Reply(r) ==
    /\ response' = r
    /\ pc' = "idle"
    /\ config' = NoConfig
    /\ scan' = NoScan
    /\ nmap' = NoNmap
    /\ proc' = "none"

\* validate_target on the submitted fields, tabulated once
Validated ==
    [target \in Targets, target_type \in TargetTypes |->
        validate_target(target, target_type)]

\* do_POST to any path but /scan
PostElsewhere(path) ==
    /\ pc = "idle"
    /\ path # "/scan"
    /\ Reply([status |-> 404, kind |-> "error", error |-> "Not Found"])
    /\ trace' = <<>>
    /\ UNCHANGED db

\* do_POST to /scan, up to its call of run_scan
PostScan(target, target_type, scan_mode, tools) ==
    /\ pc = "idle"
    /\ Len(db) < MaxScans
    /\ trace' = <<>>
    /\ UNCHANGED db
    /\ IF scan_mode \notin MODE_DETAILS
       THEN Reply([status |-> 400, kind |-> "index", error |-> "invalid scan mode"])
       ELSE IF tools = <<>>
       THEN Reply([status |-> 400, kind |-> "index", error |-> "choose at least one tool"])
       ELSE /\ config' = [target |-> target, target_type |-> target_type,
                          scan_mode |-> scan_mode, tools |-> tools]
            /\ pc' = "run_scan"
            /\ response' = NoResponse
            /\ scan' = NoScan
            /\ nmap' = NoNmap
            /\ proc' = "none"

\* run_scan up to its first adapter call: validate_target raises ValueError,
\* which do_POST catches and renders, or returns the normalized target
StartScanUnvalidated ==
    /\ pc = "run_scan"
    /\ UNCHANGED <<config, nmap, proc, response, trace, db>>
    /\ \E started_at \in UtcNow :
          scan' = [started_at |-> started_at,
                   normalized_target |-> Strip(config.target),
                   findings |-> <<>>]
    /\ pc' = NextPc(0, config.tools)

StartScan ==
    /\ pc = "run_scan"
    /\ UNCHANGED <<trace, db>>
    /\ LET v == Validated[config.target, config.target_type]
       IN  IF ~v.ok
           THEN Reply([status |-> 400, kind |-> "index", error |-> v.value])
           ELSE /\ \E started_at \in UtcNow :
                      scan' = [started_at |-> started_at,
                               normalized_target |-> v.value,
                               findings |-> <<>>]
                /\ pc' = NextPc(0, config.tools)
                /\ UNCHANGED <<config, nmap, proc, response>>

\* an adapter returned `finding`: run_scan stores it and goes on
AdapterReturns(tool, finding) ==
    /\ scan' = [scan EXCEPT !.findings = Put(@, tool, finding)]
    /\ pc' = NextPc(Position(tool), config.tools)

\* run_nmap up to its loop over the phases; nmap_bin is shutil.which("nmap")
RunNmap(nmap_bin) ==
    /\ pc = "nmap"
    /\ UNCHANGED <<config, response, db, proc>>
    /\ IF nmap_bin = ""
       THEN /\ AdapterReturns("nmap",
                   [status |-> "skipped", reason |-> "nmap not found",
                    hint |-> "install nmap first"])
            /\ trace' = trace \o << <<"call", "nmap">>, <<"return", "nmap">> >>
            /\ UNCHANGED nmap
       ELSE IF config.target_type = "url" /\ url_hostname(scan.normalized_target) = ""
       THEN /\ AdapterReturns("nmap",
                   [status |-> "error", reason |-> "cannot extract host from URL"])
            /\ trace' = trace \o << <<"call", "nmap">>, <<"return", "nmap">> >>
            /\ UNCHANGED nmap
       ELSE /\ nmap' = [nmap_bin |-> nmap_bin,
                        target_for_nmap |->
                            IF config.target_type = "url"
                            THEN url_hostname(scan.normalized_target)
                            ELSE scan.normalized_target,
                        todo |-> phase_names(config.scan_mode),
                        phases |-> <<>>]
            /\ pc' = "nmap_loop"
            /\ trace' = Append(trace, <<"call", "nmap">>)
            /\ UNCHANGED scan

\* subprocess.run starts the child, or Popen raises OSError (the binary was
\* removed or lost its execute bit after shutil.which found it): nothing
\* catches it before the server's handle_error, which drops the connection
SpawnCommand ==
    /\ pc = "nmap_loop"
    /\ nmap.todo # <<>>
    /\ UNCHANGED db
    /\ \E started \in BOOLEAN :
          IF started
          THEN /\ proc' = "running"
               /\ pc' = "run_command"
               /\ trace' = Append(trace, <<"spawn", Head(nmap.todo)>>)
               /\ UNCHANGED <<config, scan, nmap, response>>
          ELSE /\ Reply([status |-> 0, kind |-> "exception", error |-> "OSError"])
               /\ UNCHANGED trace

CurrentCommand == phase_command(Head(nmap.todo), nmap.nmap_bin, nmap.target_for_nmap)

\* the child exits on its own within the 120 s and its output decodes
CommandCompletes ==
    /\ pc = "run_command"
    /\ \E completed \in Completions(Head(nmap.todo)) :
          nmap' = [nmap EXCEPT
                      !.todo = Tail(@),
                      !.phases = Append(@, phase_entry(Head(nmap.todo),
                                     completed_outcome(CurrentCommand, completed)))]
    /\ proc' = "exited"
    /\ pc' = "nmap_loop"
    /\ UNCHANGED <<config, scan, trace, response, db>>

\* the 120 s pass: subprocess.run kills the child, waits for it and raises
\* TimeoutExpired, which _run_command turns into an outcome
CommandTimesOut ==
    /\ pc = "run_command"
    /\ nmap' = [nmap EXCEPT
                   !.todo = Tail(@),
                   !.phases = Append(@, phase_entry(Head(nmap.todo),
                                  timeout_outcome(CurrentCommand)))]
    /\ proc' = "killed"
    /\ pc' = "nmap_loop"
    /\ UNCHANGED <<config, scan, trace, response, db>>

\* text=True: output that is not valid in the locale's encoding makes
\* communicate() raise UnicodeDecodeError, a ValueError, which only do_POST's
\* `except ValueError` catches
CommandOutputUndecodable ==
    /\ pc = "run_command"
    /\ Reply([status |-> 400, kind |-> "index", error |-> "UnicodeDecodeError"])
    /\ UNCHANGED <<trace, db>>

\* run_nmap after the loop
NmapReturns ==
    /\ pc = "nmap_loop"
    /\ nmap.todo = <<>>
    /\ \E answer \in Resolutions(nmap.target_for_nmap) :
          AdapterReturns("nmap",
              [status |-> "completed",
               target_resolved |-> resolve_target(answer),
               phases |-> nmap.phases])
    /\ trace' = Append(trace, <<"return", "nmap">>)
    /\ nmap' = NoNmap
    /\ proc' = "none"
    /\ UNCHANGED <<config, response, db>>

RunZap ==
    /\ pc = "zap"
    /\ \E zap_bin \in WhichZap :
          AdapterReturns("zap",
              web_adapter(config.target_type, zap_bin, config.scan_mode, "zap"))
    /\ trace' = trace \o << <<"call", "zap">>, <<"return", "zap">> >>
    /\ UNCHANGED <<config, nmap, proc, response, db>>

RunArachni ==
    /\ pc = "arachni"
    /\ \E arachni_bin \in WhichArachni :
          AdapterReturns("arachni",
              web_adapter(config.target_type, arachni_bin, config.scan_mode, "arachni"))
    /\ trace' = trace \o << <<"call", "arachni">>, <<"return", "arachni">> >>
    /\ UNCHANGED <<config, nmap, proc, response, db>>

\* the dict run_scan returns
scan_result(finished_at) ==
    [target |-> scan.normalized_target,
     target_type |-> config.target_type,
     scan_mode |-> config.scan_mode,
     tools |-> config.tools,
     started_at |-> scan.started_at,
     finished_at |-> finished_at,
     findings |-> scan.findings]

\* run_scan returns; do_POST saves the result and redirects to it
SaveScan ==
    /\ pc = "return"
    /\ \E finished_at \in UtcNow, created_at \in LocalNow :
          LET result == scan_result(finished_at)
              row == save_scan_row(db, result.target, result.target_type,
                                   result.scan_mode, result.tools, created_at, result)
          IN  /\ db' = Append(db, row)
              /\ Reply([status |-> 303, kind |-> "redirect",
                        location |-> "/results/" \o Str(row.id)])
    /\ UNCHANGED trace

PostPaths == {"/scan", "/scans", "/"}

Next ==
    \/ \E path \in PostPaths : PostElsewhere(path)
    \/ \E target \in Targets, target_type \in TargetTypes,
          scan_mode \in ScanModes, tools \in ToolLists :
          PostScan(target, target_type, scan_mode, tools)
    \/ StartScan
    \/ \E nmap_bin \in WhichNmap : RunNmap(nmap_bin)
    \/ SpawnCommand
    \/ CommandCompletes
    \/ CommandTimesOut
    \/ CommandOutputUndecodable
    \/ NmapReturns
    \/ RunZap
    \/ RunArachni
    \/ SaveScan

Spec == Init /\ [][Next]_vars

(***************************************************************************)
(* app.py: do_GET, over a store that already holds a scan.                 *)
(***************************************************************************)
EndsWith(s, suffix) ==
    Len(suffix) <= Len(s) /\ SubSeq(s, Len(s) - Len(suffix) + 1, Len(s)) = suffix

RECURSIVE StripSlashes(_)
\* token.strip("/")
StripSlashes(token) ==
    IF token # "" /\ Ch(token, 1) = "/" THEN StripSlashes(From(token, 1))
    ELSE IF token # "" /\ Ch(token, Len(token)) = "/"
    THEN StripSlashes(Upto(token, Len(token) - 1))
    ELSE token

\* _extract_run_id: the token it tests with isdigit()
run_id_token(path, suffix) ==
    LET token == From(path, Len("/results/"))
        cut == IF suffix # "" /\ EndsWith(token, suffix)
               THEN Upto(token, Len(token) - Len(suffix)) ELSE token
    IN  StripSlashes(cut)

\* str.isdigit() on ASCII text
isdigit(token) == token # "" /\ AllIn(token, Digits)

\* the three /results/ branches of do_GET, which differ in the suffix and
\* in what they make of the record
ServeResult(path, suffix, kind) ==
    LET token == run_id_token(path, suffix)
    IN  IF ~isdigit(token)
        THEN Reply([status |-> 400, kind |-> "error", error |-> "Invalid run id"])
        ELSE IF ~has_scan(db, ParseInt(token))
        THEN Reply([status |-> 404, kind |-> "error", error |-> "Scan not found"])
        ELSE LET rec == get_scan(db, ParseInt(token))
             IN  Reply([status |-> 200, kind |-> kind, run_id |-> ParseInt(token),
                        body |-> IF kind = "pdf" THEN build_pdf_report(rec)
                                 ELSE IF kind = "json" THEN json_dumps(rec.result)
                                 ELSE rec])

\* do_GET; css_exists is CSS_PATH.exists()
DoGet(path, css_exists) ==
    /\ pc = "idle"
    /\ UNCHANGED <<db, trace>>
    /\ IF path = "/"
       THEN Reply([status |-> 200, kind |-> "index", error |-> ""])
       ELSE IF path = "/static/style.css"
       THEN (IF css_exists
             THEN Reply([status |-> 200, kind |-> "css"])
             ELSE Reply([status |-> 404, kind |-> "error", error |-> "Not Found"]))
       ELSE IF StartsWith(path, "/results/") /\ EndsWith(path, "/json")
       THEN ServeResult(path, "/json", "json")
       ELSE IF StartsWith(path, "/results/") /\ EndsWith(path, "/pdf")
       THEN ServeResult(path, "/pdf", "pdf")
       ELSE IF StartsWith(path, "/results/")
       THEN ServeResult(path, "", "html")
       ELSE Reply([status |-> 404, kind |-> "error", error |-> "Not Found"])

\* request paths of GET
GetPaths ==
    { "/", "/static/style.css", "/results/1", "/results/01/json", "/results/1/pdf",
      "/results/2/pdf", "/results/x/pdf", "/results/", "/scan" }

\* nmap output by port lines printed: none, one, three, five
ReportOutputs ==
    { "Starting Nmap\nHost is up.\n",
      "PORT   STATE SERVICE\n22/tcp open  ssh\n443/tcp closed https\n",
      "21/tcp open ftp\r\n  25/tcp  open  smtp (Postfix)\r\n110/tcp filtered pop3\r\n5 0 obj /tcp open\r\n",
      "80/tcp open http\n443/tcp open https\n3306/tcp open mysql\n8080/tcp open http-proxy\n9000/tcp open \\cslistener\n" }

\* the phases lists run_nmap can return for a mode, one output per phase
ReportPhases(scan_mode) ==
    LET names == phase_names(scan_mode)
    IN  { [i \in 1..Len(names) |->
              phase_entry(names[i],
                  completed_outcome(phase_command(names[i], "/usr/bin/nmap", "example.com"),
                                    [returncode |-> 0, stdout |-> out[i], stderr |-> ""]))]
          : out \in [1..Len(names) -> ReportOutputs] }

\* the nmap findings of a stored result
ReportNmap(scan_mode) ==
    { [status |-> "skipped", reason |-> "nmap not found", hint |-> "install nmap first"] }
        \cup { [status |-> "completed", target_resolved |-> "unresolved", phases |-> ph]
               : ph \in ReportPhases(scan_mode) }

\* the stored results of a mode: a url scan by all three tools
ReportResultsOf(scan_mode) ==
    { [target |-> "https://example.com/a(b)?q=5 0 obj¤",
       target_type |-> "url",
       scan_mode |-> scan_mode,
       tools |-> <<"nmap", "zap", "arachni">>,
       started_at |-> "2026-01-05T10:00:00.000000+00:00",
       finished_at |-> "2026-01-05T10:04:00.000000+00:00",
       findings |-> [tool \in {"nmap", "zap", "arachni"} |->
                        IF tool = "nmap" THEN nm
                        ELSE IF tool = "zap" THEN web_adapter("url", zap_bin, scan_mode, "zap")
                        ELSE web_adapter("url", arachni_bin, scan_mode, "arachni")]]
      : nm \in ReportNmap(scan_mode), zap_bin \in WhichZap, arachni_bin \in WhichArachni }

ReportResults == ReportResultsOf("quick")

InitReport ==
    /\ pc = "idle"
    /\ config = NoConfig
    /\ scan = NoScan
    /\ nmap = NoNmap
    /\ proc = "none"
    /\ trace = <<>>
    /\ response = NoResponse
    /\ \E result \in ReportResults, created_at \in LocalNow :
          db = <<save_scan_row(<<>>, result.target, result.target_type,
                               result.scan_mode, result.tools, created_at, result)>>

NextReport ==
    \E path \in GetPaths :
       \E css_exists \in (IF path = "/static/style.css" THEN BOOLEAN ELSE {TRUE}) :
          DoGet(path, css_exists)

SpecReport == InitReport /\ [][NextReport]_vars

(***************************************************************************)
(* storage.py by itself: save_scan as do_POST calls it and get_scan as     *)
(* do_GET calls it, in any order.  sqlite runs the INSERTs one at a time.  *)
(***************************************************************************)
\* the most rows the store holds in a run of the store
MaxRows == 3

\* parse_qs(body).get("tools", []): blank values are dropped
parse_qs_values(values) == SelectSeq(values, LAMBDA v : v # "")

\* submitted forms: the target type and the tools fields
Submissions ==
    { <<"ip", <<"nmap">>>>,
      <<"url", <<"arachni", "", "zap", "nmap">>>>,
      <<"url", <<"nmap,zap">>>>,
      <<"ip", <<"", "zap", "nikto", "zap">>>> }

\* the findings run_scan collects for a target that is not a url when nmap
\* is not installed, and for a url when nmap ran and only zap is installed
StoreFindings(target_type, tools) ==
    LET ran == <<phase_entry("host_discovery",
                     completed_outcome(phase_command("host_discovery", "/usr/bin/nmap", "example.com"),
                         [returncode |-> 0,
                          stdout |-> "Starting Nmap\nHost is up.\n",
                          stderr |-> ""])),
                 phase_entry("port_service_detection",
                     completed_outcome(phase_command("port_service_detection", "/usr/bin/nmap", "example.com"),
                         [returncode |-> 1,
                          stdout |-> "21/tcp open ftp\r\n\t9000/tcp open \\cslistener\n",
                          stderr |-> "Failed to resolve \"example.com\".\n"])),
                 phase_entry("vulnerability_nse",
                     timeout_outcome(phase_command("vulnerability_nse", "/usr/bin/nmap", "example.com")))>>
        all == [tool \in KnownAdapters |->
                   IF tool = "nmap"
                   THEN (IF target_type = "url"
                         THEN [status |-> "completed", target_resolved |-> "unresolved",
                               phases |-> ran]
                         ELSE [status |-> "skipped", reason |-> "nmap not found",
                               hint |-> "install nmap first"])
                   ELSE IF tool = "zap"
                   THEN web_adapter(target_type, "/usr/bin/zaproxy", "balanced", "zap")
                   ELSE web_adapter(target_type, "", "balanced", "arachni")]
    IN  [tool \in {k \in KnownAdapters : Requested(k, tools)} |-> all[tool]]

\* the ScanResults do_POST passes to save_scan
StoreResults ==
    { [target |-> IF form[1] = "url" THEN "https://example.com/a?q=\"x\"" ELSE "127.0.0.1",
       target_type |-> form[1],
       scan_mode |-> "balanced",
       tools |-> parse_qs_values(form[2]),
       started_at |-> "2026-01-05T10:00:00.000000+00:00",
       finished_at |-> "2026-01-05T10:04:00.000000+00:00",
       findings |-> StoreFindings(form[1], parse_qs_values(form[2]))]
      : form \in Submissions }

InitStore ==
    /\ pc = "idle"
    /\ config = NoConfig
    /\ scan = NoScan
    /\ nmap = NoNmap
    /\ proc = "none"
    /\ trace = <<>>
    /\ response = NoResponse
    /\ db = <<>>

\* save_scan(target=result["target"], ..., result=result); the trace keeps
\* the id it returned and the result it was given
StoreCreate(result) ==
    /\ Len(db) < MaxRows
    /\ \E created_at \in LocalNow :
          LET row == save_scan_row(db, result.target, result.target_type,
                                   result.scan_mode, result.tools, created_at, result)
          IN  /\ db' = Append(db, row)
              /\ trace' = Append(trace, <<"create", row.id, result>>)
              /\ response' = [status |-> 0, kind |-> "created", run_id |-> row.id]
    /\ UNCHANGED <<pc, config, scan, nmap, proc>>

\* get_scan(run_id): the record, or None
StoreGet(run_id) ==
    /\ response' = IF has_scan(db, run_id)
                   THEN [status |-> 0, kind |-> "record", run_id |-> run_id,
                         body |-> get_scan(db, run_id)]
                   ELSE [status |-> 0, kind |-> "absent", run_id |-> run_id]
    /\ UNCHANGED <<pc, config, scan, nmap, proc, trace, db>>

NextStore ==
    \/ \E result \in StoreResults : StoreCreate(result)
    \/ \E run_id \in 0..(MaxRows + 1) : StoreGet(run_id)

SpecStore == InitStore /\ [][NextStore]_vars

(***************************************************************************)
(* scanner.py by itself: validate_target on domain names.                  *)
(***************************************************************************)
RECURSIVE Repeat(_, _)
\* s * n
Repeat(s, n) == IF n = 0 THEN "" ELSE s \o Repeat(s, n - 1)

\* labels: plain, mixed case with a digit, hyphen first, hyphen last, hyphen
\* inside, empty, a character outside the class, 63 and 64 characters
DomainLabels ==
    { "a", "Ab1", "-a", "a-", "a-b", "", "a_b", Repeat("x", 63), Repeat("x", 64) }

\* final labels: alphabetic, one letter, with a digit, with a hyphen first,
\* empty, 63 and 64 letters
FinalLabels ==
    { "com", "Org", "c", "c0m", "-com", "", Repeat("y", 63), Repeat("y", 64) }

\* names of 253 and of 254 characters whose labels are all of 63 or fewer
LongNames ==
    LET l63 == Repeat("x", 63) \o "."
    IN  { l63 \o l63 \o l63 \o Repeat("y", 61),
          l63 \o l63 \o l63 \o Repeat("y", 62) }

\* the strings submitted as a domain target
DomainTargets ==
    {first \o "." \o final : first \in DomainLabels, final \in FinalLabels}
    \cup {first \o "." \o inner \o "." \o final :
              first \in {"a", "Ab1", "a-"}, inner \in DomainLabels,
              final \in {"com", "Org", "c0m"}}
    \cup LongNames
    \cup {"com", " Example.COM ", "a.-b.com", "a.-b.com\n", "-a.b.com", "a.b.-c.Com"}

\* validate_target over the submitted domain targets
ValidatedDomains == [target \in DomainTargets |-> validate_target(target, "domain")]

InitValidate ==
    /\ pc = "idle"
    /\ config = NoConfig
    /\ scan = NoScan
    /\ nmap = NoNmap
    /\ proc = "none"
    /\ trace = <<>>
    /\ response = NoResponse
    /\ db = <<>>

\* validate_target(target, "domain"): the value returned, or the ValueError
ValidateDomain(target) ==
    LET v == ValidatedDomains[target]
    IN  /\ config' = [NoConfig EXCEPT !.target = target, !.target_type = "domain"]
        /\ response' = [status |-> 0, kind |-> "validated", ok |-> v.ok, value |-> v.value]
        /\ UNCHANGED <<pc, scan, nmap, proc, trace, db>>

NextValidate == \E target \in DomainTargets : ValidateDomain(target)

SpecValidate == InitValidate /\ [][NextValidate]_vars

(***************************************************************************)
(* Properties of a submission: do_POST, run_scan and the adapters.         *)
(***************************************************************************)
FindingStatuses == {"completed", "available", "simulated", "skipped", "error"}
KnownTools == {"nmap", "zap", "arachni"}

\* the adapters called so far in this request, in call order
Calls == SelectSeq(trace, LAMBDA e : e[1] = "call")

\* C1: whatever an external command does (exit, failure, timeout, not being
\* startable), nothing escapes an adapter: a request whose adapters ran ends
\* in a stored ScanResult, and at run_scan's return every requested adapter
\* has left a finding with one of the five statuses.
C1_ToolFailuresAbsorbed ==
    /\ (pc = "idle" /\ trace # <<>>) => response.kind = "redirect"
    /\ pc = "return" =>
          \A tool \in KnownTools \cap Range(config.tools) :
             /\ tool \in DOMAIN scan.findings
             /\ scan.findings[tool].status \in FindingStatuses

\* the request ended in an exception raised while nmap was being run
C1_Escaped ==
    /\ pc = "idle"
    /\ trace # <<>>
    /\ response.kind = "exception"

\* C2: the requested adapters are called in the order nmap, zap, arachni,
\* whatever config.tools looks like; each call comes after the return of the
\* one before; and at run_scan's return exactly the requested ones were called.
C2_FixedAdapterOrder ==
    LET rank == [nmap |-> 1, zap |-> 2, arachni |-> 3]
    IN  /\ \A i, j \in DOMAIN trace :
              (i < j /\ trace[i][1] = "call" /\ trace[j][1] = "call") =>
                  /\ rank[trace[i][2]] < rank[trace[j][2]]
                  /\ \E k \in (i + 1)..(j - 1) : trace[k] = <<"return", trace[i][2]>>
        /\ pc = "return" =>
              {Calls[i][2] : i \in DOMAIN Calls} = KnownTools \cap Range(config.tools)

\* all three were requested last-first, and ran first-last
C2_Reordered ==
    /\ pc = "return"
    /\ config.tools = <<"arachni", "zap", "nmap">>
    /\ Calls = << <<"call", "nmap">>, <<"call", "zap">>, <<"call", "arachni">> >>

\* C3: a submission whose target fails validation is answered 400 with
\* validate_target's message as it was raised, and in that request no adapter
\* is called, no command is spawned and the store keeps its rows.
C3_InvalidTargetStopsRequest ==
    [][(/\ pc = "run_scan"
        /\ ~validate_target(config.target, config.target_type).ok)
       => /\ response' = [status |-> 400, kind |-> "index",
                          error |-> validate_target(config.target, config.target_type).value]
          /\ pc' = "idle"
          /\ trace' = <<>>
          /\ proc' = "none"
          /\ scan'.findings = <<>>
          /\ db' = db]_vars

\* a request was refused for its target
C3_Refused ==
    /\ pc = "idle"
    /\ response.status = 400
    /\ response.kind = "index"
    /\ response.error \in {"target required", "not an IP address", "invalid domain",
                           "URL must start with http:// or https://",
                           "invalid target type"}
    /\ trace = <<>>

\* the phase names of a finding, in list order
PhaseNames(finding) == [i \in DOMAIN finding.phases |-> finding.phases[i].phase]

\* the nmap finding run_scan holds is a completed one
NmapCompleted ==
    /\ "nmap" \in DOMAIN scan.findings
    /\ scan.findings["nmap"].status = "completed"

\* C4: a completed nmap finding lists host discovery, then service
\* detection, then -- exactly when the mode is balanced or deep -- the
\* vulnerability scripts, whatever the exit status of each command was.
C4_PhasesInOrder ==
    NmapCompleted =>
        /\ PhaseNames(scan.findings["nmap"]) =
              IF config.scan_mode = "balanced" \/ config.scan_mode = "deep"
              THEN <<"host_discovery", "port_service_detection", "vulnerability_nse">>
              ELSE <<"host_discovery", "port_service_detection">>
        /\ LET spawned == SelectSeq(trace, LAMBDA e : e[1] = "spawn")
           IN  PhaseNames(scan.findings["nmap"]) = [i \in DOMAIN spawned |-> spawned[i][2]]

\* a balanced scan whose first command timed out and whose second failed
C4_LaterPhasesKept ==
    /\ NmapCompleted
    /\ config.scan_mode = "balanced"
    /\ Len(scan.findings["nmap"].phases) = 3
    /\ scan.findings["nmap"].phases[1].return_code = -1
    /\ scan.findings["nmap"].phases[2].return_code = 1

\* C5: a command that runs into the timeout raises nothing: _run_command
\* returns return_code -1, empty stdout and a non-empty stderr to run_nmap,
\* which goes on; and whenever _run_command has returned, the child it
\* started is not running.
C5_TimeoutIsAnOutcome ==
    /\ [](pc # "run_command" => proc # "running")
    /\ [][(pc = "run_command" /\ proc' = "killed")
          => /\ pc' = "nmap_loop"
             /\ response' = response
             /\ Len(nmap'.phases) = Len(nmap.phases) + 1
             /\ LET outcome == nmap'.phases[Len(nmap'.phases)]
                IN  /\ outcome.phase = Head(nmap.todo)
                    /\ outcome.return_code = -1
                    /\ outcome.stdout = ""
                    /\ outcome.stderr # ""]_vars

\* _run_command has just returned from a timeout
C5_TimedOut ==
    /\ pc = "nmap_loop"
    /\ proc = "killed"
    /\ nmap.phases # <<>>
    /\ nmap.phases[Len(nmap.phases)].return_code = -1

\* urls that validate_target accepts and urlparse finds no hostname in
HostlessUrls == {"http://:80"}

\* run_nmap is about to run on a url without a host
C6_Case ==
    /\ pc = "nmap"
    /\ config.target_type = "url"
    /\ scan.normalized_target \in HostlessUrls

\* C6 as amended: for a valid url without a host the nmap finding is `error`
\* when shutil.which finds nmap, and `skipped` when it does not.
C6_ErrorWhenNmapFound ==
    [][\A nmap_bin \in WhichNmap :
          (C6_Case /\ RunNmap(nmap_bin))
          => /\ "nmap" \in DOMAIN scan'.findings
             /\ scan'.findings["nmap"].status =
                   IF nmap_bin = "" THEN "skipped" ELSE "error"]_vars

\* nmap was found, and the url without a host got `error`
C6_HostlessError ==
    /\ config.target_type = "url"
    /\ scan.normalized_target \in HostlessUrls
    /\ "nmap" \in DOMAIN scan.findings
    /\ scan.findings["nmap"].status = "error"

\* C6 as claimed: for a valid url without a host the nmap finding is
\* `error` in every environment, also where nmap is not installed.
C6_AlwaysError ==
    (/\ config.target_type = "url"
     /\ scan.normalized_target \in HostlessUrls
     /\ "nmap" \in DOMAIN scan.findings)
    => scan.findings["nmap"].status = "error"

\* C7: the findings of a ScanResult have entries only for names in its
\* tools, for any tool list: while run_scan collects them and in the result
\* it returns.
C7_FindingsWithinTools ==
    /\ DOMAIN scan.findings \subseteq Range(config.tools)
    /\ pc = "return" =>
          \A finished_at \in UtcNow :
             DOMAIN scan_result(finished_at).findings
                 \subseteq Range(scan_result(finished_at).tools)

\* the result of a list with a repeated and an unknown name
C7_OnlyZap ==
    /\ pc = "return"
    /\ config.tools = <<"zap", "nikto", "zap">>
    /\ DOMAIN scan.findings = {"zap"}

(***************************************************************************)
(* Properties of the report: do_GET of /results/<id>/pdf.                  *)
(***************************************************************************)
\* a PDF was served
PdfServed == response.status = 200 /\ response.kind = "pdf"

\* the record the served PDF was rendered from
Rendered == get_scan(db, response.run_id)

\* the bytes of `pdf` from 0-based offset `at`, `n` of them
Bytes(pdf, at, n) == SubSeq(pdf, at + 1, at + n)

\* the number the text before 0-based offset `end` ends with (at most 10 digits)
DigitsBefore(pdf, end) ==
    LET k == CHOOSE n \in 0..10 :
                /\ AllIn(Bytes(pdf, end - n, n), Digits)
                /\ (n = 10 \/ ~InClass(Bytes(pdf, end - n - 1, 1), Digits))
    IN  Bytes(pdf, end - k, k)

\* C8: in a rendered document the number after startxref is the offset of
\* the cross-reference section, which declares 6 entries, the free-list
\* sentinel first; and entry n of the other five is the offset at which
\* object n begins with the bytes "n 0 obj".
C8_OffsetsPointAtObjects ==
    PdfServed =>
        LET pdf == response.body
            eof == "\n%%EOF\n"
            head == "xref\n0 6\n"
            sentinel == "0000000000 65535 f \n"
            number == DigitsBefore(pdf, Len(pdf) - Len(eof))
            xref == ParseInt(number)
            entry(n) == Bytes(pdf, xref + Len(head) + 20 * n, 20)
            offset(n) == ParseInt(Upto(entry(n), 10))
            obj(n) == Str(n) \o " 0 obj"
        IN  /\ Bytes(pdf, Len(pdf) - Len(eof), Len(eof)) = eof
            /\ number # ""
            /\ Bytes(pdf, Len(pdf) - Len(eof) - Len(number) - 10, 10) = "startxref\n"
            /\ Bytes(pdf, xref - 7, 7 + Len(head)) = "endobj\n" \o head
            /\ entry(0) = sentinel
            /\ Bytes(pdf, xref + Len(head) + 20 * 6, 8) = "trailer\n"
            /\ \A n \in 1..5 :
                  /\ AllIn(Upto(entry(n), 10), Digits)
                  /\ From(entry(n), 10) = " 00000 n \n"
                  /\ Bytes(pdf, offset(n), Len(obj(n))) = obj(n)
                  /\ Bytes(pdf, offset(n) - 1, 1) = "\n"
                  /\ n > 1 => offset(n - 1) < offset(n)
                  /\ n > 1 => Bytes(pdf, offset(n) - 7, 7) = "endobj\n"

\* a document whose text itself holds "5 0 obj" was served
C8_Rendered ==
    /\ PdfServed
    /\ Contains(Rendered.target, "5 0 obj")
    /\ StartsWith(response.body, "%PDF-1.4\n")

\* the status of a tool's finding in the rendered record
StatusOf(tool) == Rendered.result.findings[tool].status

\* matched port lines (at most 8), 2 for zap available, 2 for arachni available
CountedIssues ==
    Len(_extract_port_lines(Rendered))
        + (IF StatusOf("zap") = "available" THEN 2 ELSE 0)
        + (IF StatusOf("arachni") = "available" THEN 2 ELSE 0)

\* C9: the level of the risk estimate is HIGH from 6 counted issues on,
\* MEDIUM from 3 on and LOW below, and it is the level the report prints.
C9_LevelByThreshold ==
    PdfServed =>
        LET level == IF CountedIssues >= 6 THEN "HIGH"
                     ELSE IF CountedIssues >= 3 THEN "MEDIUM" ELSE "LOW"
        IN  /\ Len(_extract_port_lines(Rendered)) <= 8
            /\ _estimate_risk(Rendered).level = level
            /\ Contains(response.body, "(Overall Risk Exposure: " \o level \o ") Tj")

\* five port lines and zap available: 7 issues, HIGH
C9_FiveLinesAndZap ==
    /\ PdfServed
    /\ Len(_extract_port_lines(Rendered)) = 5
    /\ StatusOf("zap") = "available"
    /\ StatusOf("arachni") = "simulated"
    /\ _estimate_risk(Rendered).level = "HIGH"

\* the findings of the estimate are the first four port lines, in order,
\* each behind the label label(i), and the report prints them
FindingsLabelled(label(_)) ==
    LET ports == _extract_port_lines(Rendered)
        vulns == _estimate_risk(Rendered).vulns
        first == IF Len(ports) < 4 THEN Len(ports) ELSE 4
    IN  /\ Len(vulns) = first
        /\ \A i \in 1..first :
              /\ vulns[i] = "[" \o label(i) \o "] " \o ports[i]
              /\ Contains(response.body, "(- " \o _escape_pdf_text(vulns[i]) \o ") Tj")
        /\ Contains(response.body, "(Total Findings Identified: " \o Str(first) \o ") Tj")

\* C10 as amended: with at least one matched port line, the findings are the
\* first 4 matched lines in order, entry i labelled LOW when i is odd and
\* MEDIUM when i is even.
C10_OddLowEvenMedium ==
    (PdfServed /\ _extract_port_lines(Rendered) # <<>>) =>
        FindingsLabelled(LAMBDA i : IF i % 2 = 1 THEN "LOW" ELSE "MEDIUM")

\* a report with more port lines than the four it labels
C10_FourOfMany ==
    /\ PdfServed
    /\ Len(_extract_port_lines(Rendered)) > 4
    /\ Len(_estimate_risk(Rendered).vulns) = 4

\* C10 as claimed: with at least one matched port line, the findings are the
\* first 4 matched lines in order, entry i labelled MEDIUM when i is odd and
\* LOW when i is even.
C10_OddMediumEvenLow ==
    (PdfServed /\ _extract_port_lines(Rendered) # <<>>) =>
        FindingsLabelled(LAMBDA i : IF i % 2 = 1 THEN "MEDIUM" ELSE "LOW")

(***************************************************************************)
(* Properties of the store: save_scan and get_scan.                        *)
(***************************************************************************)
\* the creates so far: <<"create", id returned, result passed>>
Creates == trace

\* C11: each save_scan returns an id greater than every id returned before;
\* get_scan of a returned id gives a record with that id whose result is the
\* result passed to that save_scan; get_scan of any other id gives None.
C11_StoreKeepsResults ==
    /\ \A i, j \in DOMAIN Creates : i < j => Creates[i][2] < Creates[j][2]
    /\ response.kind = "record" =>
          /\ response.body.id = response.run_id
          /\ \E i \in DOMAIN Creates :
                /\ Creates[i][2] = response.run_id
                /\ response.body.result = Creates[i][3]
    /\ response.kind = "absent" =>
          \A i \in DOMAIN Creates : Creates[i][2] # response.run_id

\* the first of several records was read back, with quotes, backslashes and
\* line ends in its texts
C11_ReadBack ==
    /\ Len(Creates) > 1
    /\ response.kind = "record"
    /\ response.run_id = 1
    /\ response.body.result.target_type = "url"
    /\ "nmap" \in DOMAIN response.body.result.findings
    /\ Len(response.body.result.findings["nmap"].phases) = 3

\* the label grammar: two or more labels separated by ".", each of 1 to 63
\* characters from [A-Za-z0-9-] and not starting with "-", the last one of
\* letters only and at least 2 long, 253 characters at most in all
LabelGrammar(s) ==
    LET labels == Split(s, ".")
        n == Len(labels)
    IN  /\ Len(s) <= 253
        /\ n >= 2
        /\ \A i \in 1..n :
              /\ Len(labels[i]) \in 1..63
              /\ AllIn(labels[i], LabelChars)
              /\ Ch(labels[i], 1) # "-"
        /\ Len(labels[n]) >= 2
        /\ AllIn(labels[n], Alpha)

\* C12: for a domain target, validate_target succeeds exactly when the
\* trimmed string satisfies the label grammar (no label starts with "-",
\* whichever label it is), and then returns the string in lower case.
C12_DomainGrammar ==
    response.kind = "validated" =>
        /\ response.ok <=> LabelGrammar(Strip(config.target))
        /\ response.ok => response.value = Lower(Strip(config.target))

\* a name whose second label starts with "-" was accepted
C12_InnerHyphenAccepted ==
    /\ response.kind = "validated"
    /\ config.target = "a.-b.com"
    /\ response.ok
    /\ response.value = "a.-b.com"

\* C13: the tools of a record read back are the tools of the result that
\* was saved, name for name.
C13_ToolsReadAsSaved ==
    response.kind = "record" => response.body.tools = response.body.result.tools

\* one submitted name with a comma in it was read back as two names
C13_CommaSplit ==
    /\ response.kind = "record"
    /\ response.body.result.tools = <<"nmap,zap">>
    /\ response.body.tools = <<"nmap", "zap">>
====
